---- MODULE Spec2Model ----
(***************************************************************************)
(* Model of wtc.py: the fetch -> aggregate -> format pipeline of the       *)
(* Icinga notification viewer and the watch loop that drives it.           *)
(*                                                                         *)
(* JSON values are modelled as follows.  An optional field (absent or      *)
(* null, for which dict.get returns None) is the empty tuple; a present    *)
(* string s is the tuple <<s>>.  A notification_timestamp is a record      *)
(* [str, digits]: the decimal digits of the value, and whether the JSON    *)
(* value was a string ("10") or a number (10).                             *)
(***************************************************************************)
EXTENDS Integers, Sequences, FiniteSets, TLC

VARIABLES
    args,        \* the parsed options (line 218), read-only afterwards
    pc,          \* position of the main script
    passes,      \* number of show_data() calls so far
    nextInst,    \* index into args.instance of the next instance to fetch
    responses,   \* decoded bodies received in this pass, one per fetch
    returns,     \* data_of_instances: the list being aggregated
    notifs,      \* text_output: the list being printed
    idx,         \* text_output: number of records the for loop has taken
    counter,     \* text_output: the printed-record counter
    broke,       \* text_output: the for loop was left by break
    out,         \* lines written to stdout in this pass
    elapsed,     \* wait_for_key: time.time() - timeStart, in ticks
    stdinBuf,    \* characters waiting on standard input
    exitStatus,  \* exit status of the process, None while it runs
    raised,      \* the exception that ended the process, "" if none
    intrAt       \* position at which a keyboard interrupt arrived, "" if none

vars == <<args, pc, passes, nextInst, responses, returns, notifs, idx,
          counter, broke, out, elapsed, stdinBuf, exitStatus, raised, intrAt>>

(***************************************************************************)
(* Bounds                                                                  *)
(***************************************************************************)
MaxPasses == 2        \* passes of the watch loop that are explored
MaxAggRows == 2       \* rows per response in the aggregation specification
MaxNotifs == 3        \* length of the list given to text_output
MaxLimit == 2         \* largest --limit explored
MaxElapsed == 12      \* the elapsed-time counter saturates here

MaxKeys == 1          \* characters that may wait on standard input

TicksPerSecond == 10  \* line 148: the loop sleeps 0.1 s
SleepTicks == {1, 2}  \* time.sleep(0.1) takes at least one tick

\* Python before 3.8 exits with 1 on an uncaught KeyboardInterrupt, later
\* versions kill the process with SIGINT (128 + 2 for the shell)
UncaughtInterruptStatus == {1, 130}

None == <<>>
Some(x) == <<x>>

\* a response body: rows is what json.loads returns when the body is JSON
Body(rows) == [json |-> TRUE, rows |-> rows]
\* a body that is not JSON, such as a login page
BadJSON == [json |-> FALSE, rows |-> <<>>]

Min(a, b) == IF a < b THEN a ELSE b

(***************************************************************************)
(* Python helpers                                                          *)
(***************************************************************************)
\* str(x) as an f-string renders an optional string
PyStr(opt) == IF opt = None THEN "None" ELSE opt[1]

RECURSIVE IntOfDigits(_)
\* int("10") and the value of the JSON number 10
IntOfDigits(d) ==
    IF d = <<>> THEN 0
    ELSE 10 * IntOfDigits(SubSeq(d, 1, Len(d) - 1)) + d[Len(d)]

PyInt(ts) == IntOfDigits(ts.digits)

RECURSIVE StrLess(_, _)
\* a < b for two Python strings of digits: code point by code point
StrLess(a, b) ==
    IF b = <<>> THEN FALSE
    ELSE IF a = <<>> THEN TRUE
    ELSE IF a[1] # b[1] THEN a[1] < b[1]
    ELSE StrLess(Tail(a), Tail(b))

\* a < b for two sort keys of the same Python type
PyLess(a, b) ==
    IF a.str THEN StrLess(a.digits, b.digits)
    ELSE IntOfDigits(a.digits) < IntOfDigits(b.digits)

\* str < int raises TypeError: a list of two or more keys of both types
\* cannot be sorted
SortRaises(keys) ==
    /\ Len(keys) >= 2
    /\ \E i, j \in DOMAIN keys : keys[i].str # keys[j].str

(***************************************************************************)
(* regex_parse / args.filter.match: the patterns explored are ".*" and     *)
(* literal strings; re.match anchors the pattern at the start of the name. *)
(***************************************************************************)
filter_match(pattern, name) ==
    IF pattern = ".*" THEN TRUE
    ELSE /\ Len(name) >= Len(pattern)
         /\ SubSeq(name, 1, Len(pattern)) = pattern

(***************************************************************************)
(* generate_url                                                            *)
(***************************************************************************)
generate_url(instance, host, service) ==
    IF service = None
    THEN instance \o "/dashboard#!/monitoring/host/show?host=" \o PyStr(host)
    ELSE instance \o "/dashboard#!/monitoring/service/show?host=" \o PyStr(host)
                  \o "&service=" \o PyStr(service)

\* variant: the link is built from service_display_name
add_links_display_name(instance, output) ==
    [k \in DOMAIN output |->
        [output[k] EXCEPT !.url =
            Some(generate_url(instance, output[k].host_name,
                              output[k].service_display_name))]]

\* lines 59-65: row.update({"url": url}) for every row of one response
add_links(instance, output) ==
    [k \in DOMAIN output |->
        [output[k] EXCEPT !.url =
            Some(generate_url(instance, output[k].host_name,
                              output[k].service_description))]]

(***************************************************************************)
(* sort_by_ts and returns.sort(key=sort_by_ts, reverse=True)               *)
(***************************************************************************)
sort_by_ts(elem) == elem.notification_timestamp

\* x goes before the first element whose key is smaller than x's key
RECURSIVE InsertDesc(_, _)
InsertDesc(sorted, x) ==
    IF sorted = <<>> THEN <<x>>
    ELSE IF PyLess(sort_by_ts(sorted[1]), sort_by_ts(x))
         THEN <<x>> \o sorted
         ELSE <<sorted[1]>> \o InsertDesc(Tail(sorted), x)

RECURSIVE SortDesc(_)
\* stable, descending: what list.sort(reverse=True) leaves in the list
SortDesc(list) ==
    IF list = <<>> THEN <<>>
    ELSE InsertDesc(SortDesc(SubSeq(list, 1, Len(list) - 1)), list[Len(list)])

(***************************************************************************)
(* show_time, state_string and the summary line of text_output             *)
(***************************************************************************)
show_time(ts) == "@" \o ToString(ts)

state_string(state) ==
    CASE state = Some("0") -> Some("OK")
      [] state = Some("1") -> Some("WARN")
      [] state = Some("2") -> Some("CRIT")
      [] state = Some("3") -> Some("UNKN")
      [] OTHER -> state

\* f"{n:02d}"
TwoDigits(n) == IF n < 10 THEN "0" \o ToString(n) ELSE ToString(n)

\* str.join raises TypeError when an item is None
JoinRaises(r) ==
    \/ state_string(r.notification_state) = None
    \/ r.host_name = None
    \/ r.service_display_name = None

\* lines 111-117
summary_line(r, n) ==
    TwoDigits(n) \o " | " \o show_time(PyInt(r.notification_timestamp))
        \o " | " \o state_string(r.notification_state)[1]
        \o " | " \o r.host_name[1]
        \o " | " \o r.service_display_name[1]

\* line 120 (the colour codes and the backquote before the dash are left out)
url_line(r) == "   -" \o PyStr(r.url)

\* variant: the regex is not consulted
passes_filter_any_contact(r) == r.notification_contact_name # None

\* lines 108-110: the record passes the contact filter
passes_filter(r) ==
    /\ r.notification_contact_name # None
    /\ filter_match(args.filter, r.notification_contact_name[1])

(***************************************************************************)
(* Process exit                                                            *)
(***************************************************************************)
\* sys.exit(status)
Exit(status) ==
    /\ pc' = "exited"
    /\ exitStatus' = Some(status)
    /\ raised' = "SystemExit"

\* an exception nobody catches: traceback, exit status 1
Uncaught(exc) ==
    /\ pc' = "exited"
    /\ exitStatus' = Some(1)
    /\ raised' = exc

\* falling off the end of the script
Finish ==
    /\ pc' = "exited"
    /\ exitStatus' = Some(0)
    /\ raised' = ""

\* variant: the whole script is inside the try block
InTry_everywhere(p) == TRUE

\* the positions inside the try block of lines 234-242
InTry(p) == p \in {"clear", "show", "fetch", "sort", "text", "wait"}

\* variant: the loop is entered whatever --watch says
watching_always == TRUE

\* line 232
watching == args.watch

\* lines 232-244: where the script goes once the password is known
MainEntry == IF watching THEN "clear" ELSE "show"

(***************************************************************************)
(* Actions                                                                 *)
(***************************************************************************)
\* lines 221-224: the password prompt returns
getpass_prompt ==
    /\ pc = "getpass"
    /\ pc' = MainEntry
    /\ UNCHANGED <<args, passes, nextInst, responses, returns, notifs, idx,
                   counter, broke, out, elapsed, stdinBuf, exitStatus, raised,
                   intrAt>>

\* line 235
clear_screen ==
    /\ pc = "clear"
    /\ passes < MaxPasses
    /\ pc' = "show"
    /\ out' = <<>>
    /\ UNCHANGED <<args, passes, nextInst, responses, returns, notifs, idx,
                   counter, broke, elapsed, stdinBuf, exitStatus, raised,
                   intrAt>>

\* lines 125-127 and 74: show_data is called and data_of_instances starts
show_data ==
    /\ pc = "show"
    /\ pc' = "fetch"
    /\ passes' = passes + 1
    /\ nextInst' = 1
    /\ responses' = <<>>
    /\ returns' = <<>>
    /\ UNCHANGED <<args, notifs, idx, counter, broke, out, elapsed, stdinBuf,
                   exitStatus, raised, intrAt>>

\* variant: exit() without a status
decode_error_exit0(instance) ==
    /\ out' = Append(out, "error decoding json from " \o instance
                              \o ". Login error?")
    /\ Exit(0)
    /\ UNCHANGED <<nextInst, returns>>

\* lines 55-57: the body is not JSON
decode_error(instance) ==
    /\ out' = Append(out, "error decoding json from " \o instance
                              \o ". Login error?")
    /\ Exit(1)
    /\ UNCHANGED <<nextInst, returns>>

\* lines 43-66 and 75-79: one turn of the loop of data_of_instances
get_instance_notifications(body) ==
    /\ pc = "fetch"
    /\ nextInst <= Len(args.instance)
    /\ responses' = Append(responses, body)
    /\ IF ~body.json
       THEN decode_error(args.instance[nextInst])
       ELSE /\ returns' = returns \o add_links(args.instance[nextInst],
                                                body.rows)
            /\ nextInst' = nextInst + 1
            /\ pc' = IF nextInst = Len(args.instance) THEN "sort" ELSE "fetch"
            /\ UNCHANGED <<out, exitStatus, raised>>
    /\ UNCHANGED <<args, passes, notifs, idx, counter, broke, elapsed,
                   stdinBuf, intrAt>>

\* lines 80-81, 127-132 and 99-100: the sort, and text_output is entered
data_of_instances_sort ==
    /\ pc = "sort"
    /\ IF SortRaises([k \in DOMAIN returns |-> sort_by_ts(returns[k])])
       THEN /\ Uncaught("TypeError")
            /\ UNCHANGED <<returns, notifs, idx, counter, broke>>
       ELSE /\ returns' = SortDesc(returns)
            /\ notifs' = SortDesc(returns)
            /\ idx' = 0
            /\ counter' = 0
            /\ broke' = FALSE
            /\ pc' = "text"
            /\ UNCHANGED <<exitStatus, raised>>
    /\ UNCHANGED <<args, passes, nextInst, responses, out, elapsed, stdinBuf,
                   intrAt>>

\* variant: off by one
within_limit_inclusive == counter <= args.limit

\* line 110
within_limit == counter < args.limit

\* lines 101-123: one turn of the for loop of text_output
text_output ==
    /\ pc = "text"
    /\ ~broke
    /\ idx < Len(notifs)
    /\ idx' = idx + 1
    /\ LET r == notifs[idx + 1] IN
       IF ~passes_filter(r)
       THEN UNCHANGED <<pc, counter, broke, out, exitStatus, raised>>
       ELSE IF within_limit
       THEN IF JoinRaises(r)
            THEN /\ Uncaught("TypeError")
                 /\ UNCHANGED <<counter, broke, out>>
            ELSE /\ out' = IF args.disable_urls
                           THEN Append(out, summary_line(r, counter + 1))
                           ELSE out \o <<summary_line(r, counter + 1),
                                         url_line(r)>>
                 /\ counter' = counter + 1
                 /\ UNCHANGED <<pc, broke, exitStatus, raised>>
       ELSE /\ broke' = TRUE
            /\ UNCHANGED <<pc, counter, out, exitStatus, raised>>
    /\ UNCHANGED <<args, passes, nextInst, responses, returns, notifs,
                   elapsed, stdinBuf, intrAt>>

\* lines 132, 237-240 and 139-140, or 244: text_output and show_data return;
\* in watch mode wait_for_key prints its prompt and reads the clock
show_data_return ==
    /\ pc = "text"
    /\ broke \/ idx = Len(notifs)
    /\ IF watching
       THEN /\ pc' = "wait"
            /\ out' = Append(out, "Waiting for "
                                  \o ToString(args.watch_interval)
                                  \o "s, press enter to refresh now")
            /\ elapsed' = 0
            /\ UNCHANGED <<exitStatus, raised>>
       ELSE /\ Finish
            /\ UNCHANGED <<out, elapsed>>
    /\ UNCHANGED <<args, passes, nextInst, responses, returns, notifs, idx,
                   counter, broke, stdinBuf, intrAt>>

\* variant: a negative interval is not told apart
timed_out_unguarded(timeout, waited) ==
    waited >= timeout * TicksPerSecond

\* line 143
timed_out(timeout, waited) ==
    timeout > -1 /\ waited >= timeout * TicksPerSecond

\* line 145
key_available == stdinBuf > 0

\* lines 142-148: one turn of the loop of wait_for_key
wait_for_key ==
    /\ pc = "wait"
    /\ IF timed_out(args.watch_interval, elapsed)
       THEN /\ pc' = "clear"
            /\ UNCHANGED <<elapsed, stdinBuf>>
       ELSE IF key_available
       THEN /\ stdinBuf' = stdinBuf - 1
            /\ pc' = "clear"
            /\ UNCHANGED elapsed
       ELSE /\ \E d \in SleepTicks : elapsed' = Min(elapsed + d, MaxElapsed)
            /\ UNCHANGED <<pc, stdinBuf>>
    /\ UNCHANGED <<args, passes, nextInst, responses, returns, notifs, idx,
                   counter, broke, out, exitStatus, raised, intrAt>>

\* the user presses a key
KeyPress ==
    /\ pc \notin {"getpass", "exited"}
    /\ stdinBuf < MaxKeys
    /\ stdinBuf' = stdinBuf + 1
    /\ UNCHANGED <<args, pc, passes, nextInst, responses, returns, notifs,
                   idx, counter, broke, out, elapsed, exitStatus, raised,
                   intrAt>>

\* lines 241-242: the handler of the watch loop
except_KeyboardInterrupt == Exit(0)

\* the user presses Ctrl-C: KeyboardInterrupt is raised where the script is
KeyboardInterrupt ==
    /\ pc # "exited"
    /\ intrAt' = pc
    /\ IF watching /\ InTry(pc)
       THEN except_KeyboardInterrupt
       ELSE /\ pc' = "exited"
            /\ raised' = "KeyboardInterrupt"
            /\ \E status \in UncaughtInterruptStatus : exitStatus' = Some(status)
    /\ UNCHANGED <<args, passes, nextInst, responses, returns, notifs, idx,
                   counter, broke, out, elapsed, stdinBuf>>

(***************************************************************************)
(* Inputs                                                                  *)
(***************************************************************************)
Num(d) == [str |-> FALSE, digits |-> d]
Str(d) == [str |-> TRUE, digits |-> d]

\* a row of the notification list as the server sends it; a host
\* notification has neither service_description nor service_display_name
Row(ts, service, contact) ==
    [notification_timestamp |-> ts,
     host_name |-> Some("h"),
     service_description |-> IF service THEN Some("s") ELSE None,
     service_display_name |-> IF service THEN Some("S") ELSE None,
     notification_state |-> Some("2"),
     notification_contact_name |-> contact,
     url |-> None]

\* all sequences over S of length at most n
SeqsUpTo(S, n) == UNION {[1..k -> S] : k \in 0..n}

Options(instances, limits, filters, passwords, urls, watches, intervals) ==
    [instance : instances, limit : limits, filter : filters,
     password : passwords, disable_urls : urls, watch : watches,
     watch_interval : intervals]

\* the state of the script after line 218, with the given options
Start(a) ==
    /\ args = a
    /\ pc = IF a.password = None THEN "getpass"
            ELSE IF a.watch THEN "clear" ELSE "show"
    /\ passes = 0
    /\ nextInst = 1
    /\ responses = <<>>
    /\ returns = <<>>
    /\ notifs = <<>>
    /\ idx = 0
    /\ counter = 0
    /\ broke = FALSE
    /\ out = <<>>
    /\ elapsed = 0
    /\ stdinBuf = 0
    /\ exitStatus = None
    /\ raised = ""
    /\ intrAt = ""

(***************************************************************************)
(* Spec: the whole script                                                  *)
(***************************************************************************)
\* what a server may answer: a login page, no rows, one service row, or a
\* host row after a row without contact whose timestamp is a number
DriverBodies ==
    {BadJSON,
     Body(<<>>),
     Body(<<Row(Str(<<1, 0>>), TRUE, Some("alice"))>>),
     Body(<<Row(Num(<<1, 0>>), TRUE, None),
            Row(Num(<<9>>), FALSE, Some("bob"))>>)}

DriverOptions ==
    Options({<<"A">>, <<"A", "B">>}, {1}, {".*"}, {None, Some("pw")},
            {FALSE}, BOOLEAN, {-1, 0, 1})

Init == \E a \in DriverOptions : Start(a)

Next ==
    \/ getpass_prompt
    \/ clear_screen
    \/ show_data
    \/ \E body \in DriverBodies : get_instance_notifications(body)
    \/ data_of_instances_sort
    \/ text_output
    \/ show_data_return
    \/ wait_for_key
    \/ KeyPress
    \/ KeyboardInterrupt

Spec == Init /\ [][Next]_vars

\* the interpreter keeps running the script: the wait loop takes its turns
FairSpec == Spec /\ WF_vars(wait_for_key)

(***************************************************************************)
(* TextSpec: text_output applied to a sorted, decorated list               *)
(***************************************************************************)
Timestamps == {Str(<<9>>), Str(<<1, 0>>)}

TextRows ==
    {add_links("A", <<Row(ts, service, contact)>>)[1] :
        ts \in Timestamps, service \in BOOLEAN,
        contact \in {None, Some("alice"), Some("bob")}}

\* non-increasing in the value of the timestamp
IsSorted(list) ==
    \A i, j \in DOMAIN list :
        i < j => PyInt(list[i].notification_timestamp)
                    >= PyInt(list[j].notification_timestamp)

TextOptions ==
    Options({<<"A">>}, 0..MaxLimit, {".*", "al"}, {Some("pw")}, BOOLEAN,
            {FALSE}, {0})

TextInit ==
    \E a \in TextOptions, list \in SeqsUpTo(TextRows, MaxNotifs) :
        /\ IsSorted(list)
        /\ args = a
        /\ pc = "text"
        /\ passes = 1
        /\ nextInst = 2
        /\ responses = <<Body(list)>>
        /\ returns = list
        /\ notifs = list
        /\ idx = 0
        /\ counter = 0
        /\ broke = FALSE
        /\ out = <<>>
        /\ elapsed = 0
        /\ stdinBuf = 0
        /\ exitStatus = None
        /\ raised = ""
        /\ intrAt = ""

TextNext == text_output \/ show_data_return

TextSpec == TextInit /\ [][TextNext]_vars

(***************************************************************************)
(* AggSpec: data_of_instances applied to the responses of the instances    *)
(***************************************************************************)
AggRows ==
    {Row(ts, service, Some("alice")) :
        ts \in Timestamps \cup {Num(<<9>>), Num(<<1, 0>>)},
        service \in BOOLEAN}

AggBodies == {BadJSON} \cup {Body(rows) : rows \in SeqsUpTo(AggRows, MaxAggRows)}

AggOptions ==
    Options({<<"A">>, <<"A", "B">>}, {1}, {".*"}, {Some("pw")}, {FALSE},
            {FALSE}, {0})

AggInit ==
    \E a \in AggOptions :
        /\ args = a
        /\ pc = "fetch"
        /\ passes = 1
        /\ nextInst = 1
        /\ responses = <<>>
        /\ returns = <<>>
        /\ notifs = <<>>
        /\ idx = 0
        /\ counter = 0
        /\ broke = FALSE
        /\ out = <<>>
        /\ elapsed = 0
        /\ stdinBuf = 0
        /\ exitStatus = None
        /\ raised = ""
        /\ intrAt = ""

AggNext ==
    \/ \E body \in AggBodies : get_instance_notifications(body)
    \/ data_of_instances_sort

AggSpec == AggInit /\ [][AggNext]_vars

(***************************************************************************)
(* Properties                                                              *)
(***************************************************************************)
\* the record's contact name is present and matches the configured filter
Matches(r) ==
    /\ r.notification_contact_name # None
    /\ filter_match(args.filter, r.notification_contact_name[1])

\* a host notification: no service name and no service display name
HostLevel(r) ==
    r.service_description = None /\ r.service_display_name = None

\* the summary lines among the printed lines
IsUrlLine(l) == SubSeq(l, 1, 4) = "   -"
SummaryLines(o) == SelectSeq(o, LAMBDA l : ~IsUrlLine(l))

\* the summary line the specification describes for record r printed as
\* number n; the service field of a host notification is blank
ClaimedLine(r, n) ==
    (IF n < 10 THEN "0" ELSE "") \o ToString(n)
        \o " | @" \o ToString(IntOfDigits(r.notification_timestamp.digits))
        \o " | CRIT | h | "
        \o (IF r.service_display_name = None THEN ""
            ELSE r.service_display_name[1])

\* the link the specification describes for a row fetched from instance
ClaimedUrl(instance, row) ==
    IF row.service_description = None
    THEN instance \o "/dashboard#!/monitoring/host/show?host="
                  \o row.host_name[1]
    ELSE instance \o "/dashboard#!/monitoring/service/show?host="
                  \o row.host_name[1] \o "&service="
                  \o row.service_description[1]

\* C1: when text_output has ended, the printed records are exactly the first
\* min(limit, m) of the m records that pass the contact filter, in list
\* order, numbered 1..k (so at most limit records are printed).
C1_FirstMatchingPrinted ==
    pc = "exited" =>
        LET m == SelectSeq(notifs, Matches)
            k == Min(args.limit, Len(m))
        IN  SummaryLines(out) = [n \in 1..k |-> ClaimedLine(m[n], n)]

\* C2: the list data_of_instances returns is non-increasing in the numeric
\* value of notification_timestamp, whether the server sent numbers or
\* numeric strings.
C2_SortedByValue ==
    pc = "text" =>
        \A i, j \in DOMAIN notifs :
            i < j => IntOfDigits(notifs[i].notification_timestamp.digits)
                        >= IntOfDigits(notifs[j].notification_timestamp.digits)

\* C3: a turn of text_output's loop that takes a record whose contact name
\* is absent or does not match the filter prints nothing and leaves the
\* printed-record counter as it is.
C3_FilteredNeverPrinted ==
    [][(pc = "text" /\ idx' = idx + 1 /\ ~Matches(notifs[idx + 1]))
          => (out' = out /\ counter' = counter)]_vars

C3_Witness ==
    /\ pc = "text"
    /\ args.filter = "al"
    /\ idx = 3
    /\ counter = 1
    /\ notifs[1].notification_contact_name = None
    /\ notifs[2].notification_contact_name = Some("alice")
    /\ notifs[3].notification_contact_name = Some("bob")

\* C4: when the body of an instance is not JSON the process has ended with
\* exit status 1, in watch mode and in single-run mode; the only line of the
\* pass is the diagnostic naming that instance, and that fetch is the last.
C4_BadJsonIsFatal ==
    \A k \in DOMAIN responses :
        ~responses[k].json =>
            /\ pc = "exited"
            /\ exitStatus = Some(1)
            /\ k = Len(responses)
            /\ out = <<"error decoding json from " \o args.instance[k]
                          \o ". Login error?">>

C4_Witness ==
    /\ args.watch
    /\ passes = 2
    /\ Len(responses) = 2
    /\ responses[1].json /\ responses[1].rows # <<>>
    /\ ~responses[2].json
    /\ exitStatus = Some(1)

C6_WatchCycle ==
    [][/\ passes' # passes
            => (passes' = passes + 1 /\ pc = "show" /\ pc' = "fetch")
       /\ ~args.watch => passes' <= 1
       /\ (~args.watch /\ pc' = "exited" /\ raised' = "")
            => (passes' = 1 /\ pc = "text" /\ exitStatus' = Some(0))
       /\ (~args.watch /\ pc = "text" /\ pc' # "text") => pc' = "exited"
       /\ (args.watch /\ pc' = "show" /\ pc # "show") => pc = "clear"
       /\ (pc' = "clear" /\ pc # "clear")
            => (args.watch /\ pc \in {"wait", "getpass"})
       /\ (pc' = "wait" /\ pc # "wait") => (args.watch /\ pc = "text")
       /\ (args.watch /\ pc' = "exited")
            => (intrAt' # "" \/ exitStatus' # Some(0))]_vars

C6_Witness ==
    /\ args.watch
    /\ passes = 2
    /\ pc = "wait"
    /\ intrAt = ""

\* C7: wait_for_key returns only when the interval is non-negative and has
\* elapsed, or when a key is waiting, which it then reads; it does not go on
\* sleeping once either holds; with a non-negative interval it always
\* returns (or the process is interrupted), key or no key.
C7_WaitReturns ==
    /\ [][(pc = "wait" /\ pc' = "clear")
            => \/ /\ args.watch_interval >= 0
                  /\ elapsed >= args.watch_interval * TicksPerSecond
               \/ /\ stdinBuf > 0
                  /\ stdinBuf' = stdinBuf - 1]_vars
    /\ [][(pc = "wait" /\ elapsed' # elapsed)
            => /\ ~(/\ args.watch_interval >= 0
                    /\ elapsed >= args.watch_interval * TicksPerSecond)
               /\ stdinBuf = 0]_vars
    /\ (pc = "wait" /\ args.watch_interval >= 0) ~> (pc # "wait")

C7_Witness ==
    /\ pc = "clear"
    /\ passes >= 1
    /\ args.watch_interval = 1
    /\ elapsed >= TicksPerSecond
    /\ stdinBuf = 0

\* number of positions of list at which x stands
Count(list, x) == Cardinality({i \in DOMAIN list : list[i] = x})

RECURSIVE ClaimedReturns(_)
\* the rows of the first k responses of this pass, in the order received,
\* each with the link the specification describes for its instance
ClaimedReturns(k) ==
    IF k = 0 THEN <<>>
    ELSE ClaimedReturns(k - 1) \o
         [n \in DOMAIN responses[k].rows |->
            [responses[k].rows[n] EXCEPT
                !.url = Some(ClaimedUrl(args.instance[k],
                                        responses[k].rows[n]))]]

\* C8: every row get_instance_notifications returns for an instance carries
\* the host link or the service link of that instance, and the sorted list
\* holds the same rows with the same links.
C8_UrlOfInstance ==
    /\ pc \in {"fetch", "sort"} => returns = ClaimedReturns(Len(responses))
    /\ pc = "text" =>
        LET claimed == ClaimedReturns(Len(responses)) IN
        /\ Len(notifs) = Len(claimed)
        /\ \A i \in DOMAIN notifs :
              Count(notifs, notifs[i]) = Count(claimed, notifs[i])

C8_Witness ==
    /\ pc = "text"
    /\ Len(responses) = 2
    /\ \E i, j \in DOMAIN notifs :
        /\ HostLevel(notifs[i])
        /\ SubSeq(notifs[i].url[1], 1, 2) = "A/"
        /\ ~HostLevel(notifs[j])
        /\ SubSeq(notifs[j].url[1], 1, 2) = "B/"

\* C9 as stated: once limit records have been printed (at least one), the
\* loop of text_output takes no further record from the list.
C9_ScanStopsAtLimit ==
    [][(pc = "text" /\ counter >= 1 /\ counter >= args.limit)
          => idx' = idx]_vars

\* C9 amended: once limit records have been printed, a record the loop takes
\* is neither printed nor counted, and the loop is left by break exactly when
\* that record passes the contact filter; after the break no record is
\* taken; text_output returns only after a break or at the end of the list.
C9_ScanStopsAtNextMatch ==
    [][/\ (pc = "text" /\ counter >= args.limit /\ idx' = idx + 1)
            => /\ out' = out
               /\ counter' = counter
               /\ broke' <=> Matches(notifs[idx + 1])
       /\ broke => idx' = idx
       /\ (pc = "text" /\ pc' = "exited" /\ raised' = "")
            => (broke \/ idx = Len(notifs))]_vars

C9_Witness ==
    /\ broke
    /\ args.limit = 1
    /\ counter = 1
    /\ idx = 3
    /\ ~Matches(notifs[2])

\* C10: a turn of text_output's loop that takes a host notification which
\* passes the contact filter while fewer than limit records are printed
\* prints its summary line, counts it, and the loop goes on.
C10_HostLevelPrinted ==
    [][(/\ pc = "text"
        /\ idx' = idx + 1
        /\ HostLevel(notifs[idx + 1])
        /\ Matches(notifs[idx + 1])
        /\ counter < args.limit)
          => /\ counter' = counter + 1
             /\ Len(out') > Len(out)
             /\ out'[Len(out) + 1] = ClaimedLine(notifs[idx + 1], counter + 1)
             /\ pc' = "text"]_vars

====
